---- MODULE Spec2Model ----
(***************************************************************************)
(* Model of the Ergo chain connector (class Ergo): paginated collection of *)
(* unspent boxes, the AMM pool catalog, the per-network instance registry  *)
(* and the estimate / swap computation.                                    *)
(***************************************************************************)
EXTENDS Integers, Sequences, FiniteSets, TLC

VARIABLES
    utxosLimit,      \* Ergo.utxosLimit (page size of the unspent-box index)
    ledger,          \* the node's unspent boxes, per address, in index order
    collect,         \* the getAddressUnspentBoxes call in flight
    poolLimit,       \* Ergo.poolLimit (page size of the pool source)
    poolSource,      \* pools served by makeNativePools(explorer)
    ammPools,        \* Ergo.ammPools, the pool catalog
    tasks,           \* loadPools / loadPool calls in flight, per caller
    lastLoad,        \* "loadPools" while the catalog is as a loadPools call left it
    maxLRUCacheInstances, \* config.network.maxLRUCacheInstances
    instances,       \* Ergo._instances: undefined, or the LRU cache
    constructed,     \* number of Ergo objects constructed so far
    lastCall,        \* the last registry call and what it returned
    held,            \* per client, the instance its last getInstance returned
    evictions,       \* per network, how often its entry was dropped so far
    swapCall,        \* the swap call in flight and its outcome
    lastEstimate,    \* the outcome of the last estimate call
    txSubmitted,     \* transactions handed to actions.swap so far
    vault,           \* the encrypt / decrypt calls made on a secret
    assetMap,        \* Ergo._assetMap, the asset catalog (by uppercased name)
    assetCall,       \* the getAssetBalance call in flight and its outcome
    lastBalance,     \* the last getBalance call and what it returned
    initCall,        \* the init call in flight and its outcome
    ready            \* Ergo._ready

vars == << utxosLimit, ledger, collect, poolLimit, poolSource, ammPools, tasks,
           lastLoad, maxLRUCacheInstances, instances, constructed, lastCall,
           held, evictions, swapCall, lastEstimate, txSubmitted, vault,
           assetMap, assetCall, lastBalance, initCall, ready >>

boxVars  == << utxosLimit, ledger, collect >>
poolVars == << poolLimit, poolSource, ammPools, tasks, lastLoad >>
instVars == << maxLRUCacheInstances, instances, constructed, lastCall, held,
              evictions >>
tradeVars == << swapCall, lastEstimate, txSubmitted >>
vaultVars == << vault >>
balanceVars == << assetMap, assetCall, lastBalance >>
initVars == << initCall, ready >>

None == "none"                  \* an absent string
Nothing == [nothing |-> TRUE]   \* undefined, where an object is expected

Min(a, b) == IF a < b THEN a ELSE b

(***************************************************************************)
(* Bounds of the model.                                                    *)
(***************************************************************************)
MaxBoxes == 4          \* longest unspent-box list of an address
MaxUtxosLimit == 3     \* largest page size of the unspent-box index
MaxPoolLimit == 2      \* largest page size of the pool source
MaxConstructed == 3    \* Ergo objects constructed in one behaviour
MaxCacheSize == 2      \* largest configured maxLRUCacheInstances
MaxSourcePools == 3    \* most pools a pool source serves
MaxTx == 1             \* transactions submitted in one behaviour

Addresses == {"addr1", "addr2"}
Errors == {"NetworkUnreachable", "Timeout"}

(***************************************************************************)
(* BoxCollector: getAddressUnspentBoxes                                    *)
(***************************************************************************)

\* An unspent box (ErgoBox): id, native value, token entries.
Box(i) ==
    [boxId |-> i,
     value |-> i,
     assets |-> IF i % 2 = 0
                THEN << [tokenId |-> "A", amount |-> 10 * i] >>
                ELSE << [tokenId |-> "A", amount |-> 10],
                        [tokenId |-> "B", amount |-> 10 * i] >>]

BoxList(n) == [i \in 1..n |-> Box(i)]

\* NodeService.getUnspentBoxesByAddress(address, offset, limit): the page of
\* at most `limit` boxes that starts `offset` boxes into the address's list.
getUnspentBoxesByAddress(address, offset, limit) ==
    SubSeq(ledger[address], offset + 1, Min(offset + limit, Len(ledger[address])))

IdleCollect ==
    [pc |-> "idle", address |-> None, utxos |-> << >>, offset |-> 0,
     requests |-> 0, pages |-> << >>, changed |-> FALSE, error |-> None,
     raised |-> None]

\* Faulty variant: the loop stops at the first page shorter than utxosLimit.
LoopContinuesShort(nodeBoxes) == Len(nodeBoxes) >= utxosLimit
\* while (nodeBoxes.length > 0)
LoopContinues(nodeBoxes) == Len(nodeBoxes) > 0

\* Faulty variant: the page replaces what was collected.
ConcatKeepLast(utxos, nodeBoxes) == nodeBoxes
\* utxos = [...utxos, ...nodeBoxes]
ConcatUtxos(utxos, nodeBoxes) == utxos \o nodeBoxes

\* offset += this.utxosLimit
NextOffset(offset) == offset + utxosLimit

\* The call starts: utxos = [], offset = 0, and the first page is requested.
StartedCollect(address) ==
    [IdleCollect EXCEPT !.pc = "await", !.address = address, !.requests = 1]

CollectStart(address) ==
    /\ collect.pc = "idle"
    /\ collect' = StartedCollect(address)
    /\ UNCHANGED << utxosLimit, ledger, poolVars, instVars, tradeVars,
                    vaultVars, balanceVars, initVars >>

\* The node answers the page request in flight; the loop body runs and either
\* requests the next page or returns the boxes collected.
CollectPage ==
    /\ collect.pc = "await"
    /\ LET nodeBoxes == getUnspentBoxesByAddress(collect.address, collect.offset,
                                                 utxosLimit)
           served == Append(collect.pages, nodeBoxes)
       IN IF LoopContinues(nodeBoxes)
          THEN collect' = [collect EXCEPT
                              !.utxos = ConcatUtxos(collect.utxos, nodeBoxes),
                              !.offset = NextOffset(collect.offset),
                              !.requests = collect.requests + 1,
                              !.pages = served]
          ELSE collect' = [collect EXCEPT !.pc = "done", !.pages = served]
    /\ UNCHANGED << utxosLimit, ledger, poolVars, instVars, tradeVars,
                    vaultVars, balanceVars, initVars >>

\* Faulty variant: the call rejects with an error of its own.
RejectionWrapped(e) == "CollectionFailed"
\* No try / catch around the awaits: the call rejects with what the request
\* threw.
Rejection(e) == e

\* The page request in flight fails with `e`: the await throws and the call
\* rejects; the boxes collected so far are gone with its frame.
CollectFail(e) ==
    /\ collect.pc = "await"
    /\ collect' = [collect EXCEPT !.pc = "failed", !.raised = e,
                                  !.error = Rejection(e), !.utxos = << >>]
    /\ UNCHANGED << utxosLimit, ledger, poolVars, instVars, tradeVars,
                    vaultVars, balanceVars, initVars >>

\* The caller takes the outcome (the boxes, or the error).
CollectReturn ==
    /\ collect.pc \in {"done", "failed"}
    /\ collect' = IdleCollect
    /\ UNCHANGED << utxosLimit, ledger, poolVars, instVars, tradeVars,
                    vaultVars, balanceVars, initVars >>

\* The chain moves on: the oldest unspent box of an address is spent. A call
\* that started on that address before is marked: its list has changed.
LedgerSpend(address) ==
    /\ Len(ledger[address]) > 0
    /\ ledger' = [ledger EXCEPT ![address] = Tail(@)]
    /\ collect' = IF collect.pc # "idle" /\ collect.address = address
                  THEN [collect EXCEPT !.changed = TRUE]
                  ELSE collect
    /\ UNCHANGED << utxosLimit, poolVars, instVars, tradeVars,
                    vaultVars, balanceVars, initVars >>


(***************************************************************************)
(* PoolRegistry: loadPools, loadPool, getPool, getPoolByToken              *)
(***************************************************************************)
Callers == {"init", "c2"}    \* "init" is the caller that runs init()
Tokens == {"A", "B", "C"}
PoolIds == {"p1", "p2", "p9"}

\* An AMM pool (class Pool): id, the two reserves, the fee numerator.
MkPool(id, xId, xAmount, yId, yAmount) ==
    [id |-> id,
     x |-> [asset |-> [id |-> xId], amount |-> xAmount],
     y |-> [asset |-> [id |-> yId], amount |-> yAmount],
     poolFeeNum |-> 997]

\* The pools a source may serve: two pools of the pair A/B in opposite
\* orientation, and a second snapshot of pool p1.
PoolUniverse ==
    << MkPool("p1", "A", 1000, "B", 2000),
       MkPool("p2", "B", 300, "A", 100),
       MkPool("p1", "A", 1010, "B", 1981) >>

\* The sources: the subsequences of PoolUniverse of at most MaxSourcePools pools.
RECURSIVE SubSeqs(_)
SubSeqs(n) ==
    IF n = 0 THEN {<< >>}
    ELSE LET shorter == SubSeqs(n - 1)
         IN shorter \cup {Append(q, PoolUniverse[n]) : q \in shorter}

PoolSources == {q \in SubSeqs(Len(PoolUniverse)) : Len(q) <= MaxSourcePools}

Ids(pools) == {pools[i].id : i \in DOMAIN pools}
NoDupIds(pools) == \A i, j \in DOMAIN pools : i # j => pools[i].id # pools[j].id

\* makeNativePools(explorer).getAll({limit, offset})[0]
getPoolData(limit, offset) ==
    SubSeq(poolSource, offset + 1, Min(offset + limit, Len(poolSource)))

\* makeNativePools(explorer).get(poolId)
SourceGet(poolId) ==
    LET hits == {i \in DOMAIN poolSource : poolSource[i].id = poolId}
    IN IF hits = {} THEN Nothing
       ELSE poolSource[CHOOSE i \in hits : \A j \in hits : i <= j]

\* Array.prototype.find: the index of the first entry satisfying Test, or 0.
FirstIndex(pools, Test(_)) ==
    LET hits == {i \in DOMAIN pools : Test(pools[i])}
    IN IF hits = {} THEN 0 ELSE CHOOSE i \in hits : \A j \in hits : i <= j

\* getPool(id): this.ammPools.find((ammPool) => ammPool.id === id)
getPoolIndex(id) ==
    LET Test(ammPool) == ammPool.id = id IN FirstIndex(ammPools, Test)
getPool(id) ==
    IF getPoolIndex(id) = 0 THEN Nothing ELSE ammPools[getPoolIndex(id)]

\* Faulty variant: a pool matches as soon as it trades the quote token.
PairMatchQuoteOnly(ammPool, baseToken, quoteToken) ==
    ammPool.x.asset.id = quoteToken \/ ammPool.y.asset.id = quoteToken
\* Faulty variant: only the (x = base, y = quote) orientation matches.
PairMatchOrdered(ammPool, baseToken, quoteToken) ==
    ammPool.x.asset.id = baseToken /\ ammPool.y.asset.id = quoteToken
\* The predicate of getPoolByToken.
PairMatch(ammPool, baseToken, quoteToken) ==
    \/ ammPool.x.asset.id = baseToken /\ ammPool.y.asset.id = quoteToken
    \/ ammPool.x.asset.id = quoteToken /\ ammPool.y.asset.id = baseToken

\* getPoolByToken(baseToken, quoteToken), on a catalog
PoolIndexByToken(pools, baseToken, quoteToken) ==
    LET Test(ammPool) == PairMatch(ammPool, baseToken, quoteToken)
    IN FirstIndex(pools, Test)
getPoolByToken(baseToken, quoteToken) ==
    IF PoolIndexByToken(ammPools, baseToken, quoteToken) = 0 THEN Nothing
    ELSE ammPools[PoolIndexByToken(ammPools, baseToken, quoteToken)]

\* Faulty variant: the catalog is kept at its size, the oldest entry goes.
PushDroppingOldest(pools, pool) ==
    IF pools = << >> THEN << pool >> ELSE Append(Tail(pools), pool)
\* Faulty variant: the pool goes to the front of the catalog.
PushFront(pools, pool) == << pool >> \o pools
\* this.ammPools.push(pool)
Push(pools, pool) == Append(pools, pool)

\* Faulty variant: every pool of the page counts as new.
IsNewPoolAlways(pools, pool) == TRUE
\* !this.ammPools.filter((ammPool) => ammPool.id === pool.id).length
IsNewPool(pools, pool) == \A i \in DOMAIN pools : pools[i].id # pool.id

\* for (const pool of pools) if (new) this.ammPools.push(pool): the catalog
\* after the first n pools of the page have been handled.
RECURSIVE MergePage(_, _, _)
MergePage(catalog, page, n) ==
    IF n = 0 THEN catalog
    ELSE LET sofar == MergePage(catalog, page, n - 1)
         IN IF IsNewPool(sofar, page[n]) THEN Push(sofar, page[n]) ELSE sofar

IdleTask ==
    [op |-> "idle", pc |-> "idle", poolId |-> None, offset |-> 0,
     requests |-> 0, found |-> Nothing, queried |-> FALSE, pushed |-> << >>,
     afterLoadAll |-> FALSE, foreign |-> FALSE, error |-> None]

InFlight(t) == tasks[t].pc \notin {"idle", "done", "failed"}

\* tasks after caller t moved to record r and appended `added` to the catalog:
\* the other calls in flight have seen the catalog change under them.
TasksAfter(t, r, added) ==
    [u \in Callers |->
        IF u = t THEN r
        ELSE IF added # << >> /\ InFlight(u)
             THEN [tasks[u] EXCEPT !.foreign = TRUE]
             ELSE tasks[u]]

\* Faulty variant: the loop stops at the first page shorter than poolLimit.
PoolsLoopContinuesShort(pools) == Len(pools) >= poolLimit
\* while (pools.length > 0)
PoolsLoopContinues(pools) == Len(pools) > 0

\* loadPools(): offset = 0 and the first page is requested.
LoadPoolsStart(t) ==
    /\ t = "init"
    /\ tasks[t].pc = "idle"
    /\ tasks' = TasksAfter(t,
          [IdleTask EXCEPT !.op = "loadPools", !.pc = "awaitPage",
                           !.requests = 1,
                           !.afterLoadAll = (lastLoad = "loadPools")],
          << >>)
    /\ UNCHANGED << poolLimit, poolSource, ammPools, lastLoad,
                    boxVars, instVars, tradeVars, vaultVars, balanceVars,
                    initVars >>

\* The source answers the page request: the new pools of the page are pushed
\* and the next page is requested, or the empty page ends the call.
LoadPoolsPage(t) ==
    /\ tasks[t].op = "loadPools" /\ tasks[t].pc = "awaitPage"
    /\ LET pools == getPoolData(poolLimit, tasks[t].offset)
           merged == MergePage(ammPools, pools, Len(pools))
           added == SubSeq(merged, Len(ammPools) + 1, Len(merged))
       IN IF PoolsLoopContinues(pools)
          THEN /\ ammPools' = merged
               /\ tasks' = TasksAfter(t,
                     [tasks[t] EXCEPT !.offset = @ + poolLimit,
                                      !.requests = @ + 1,
                                      !.pushed = @ \o added],
                     added)
               /\ lastLoad' = IF added = << >> THEN lastLoad ELSE None
          ELSE /\ ammPools' = ammPools
               /\ tasks' = TasksAfter(t, [tasks[t] EXCEPT !.pc = "done"], << >>)
               /\ lastLoad' = "loadPools"
    /\ UNCHANGED << poolLimit, poolSource,
                    boxVars, instVars, tradeVars, vaultVars, balanceVars,
                    initVars >>

\* The page request fails: loadPools rejects with the transport error.
LoadPoolsFail(t, e) ==
    /\ tasks[t].op = "loadPools" /\ tasks[t].pc = "awaitPage"
    /\ tasks' = TasksAfter(t, [tasks[t] EXCEPT !.pc = "failed", !.error = e],
                           << >>)
    /\ UNCHANGED << poolLimit, poolSource, ammPools, lastLoad,
                    boxVars, instVars, tradeVars, vaultVars, balanceVars,
                    initVars >>

\* loadPool(poolId): await RustModule.load(true)
LoadPoolStart(t, poolId) ==
    /\ tasks[t].pc = "idle"
    /\ tasks' = TasksAfter(t,
          [IdleTask EXCEPT !.op = "loadPool", !.pc = "awaitModule",
                           !.poolId = poolId],
          << >>)
    /\ UNCHANGED << poolLimit, poolSource, ammPools, lastLoad,
                    boxVars, instVars, tradeVars, vaultVars, balanceVars,
                    initVars >>

\* The module is loaded: this.getPool(poolId) is evaluated and awaited.
LoadPoolLookup(t) ==
    /\ tasks[t].op = "loadPool" /\ tasks[t].pc = "awaitModule"
    /\ tasks' = TasksAfter(t,
          [tasks[t] EXCEPT !.pc = "awaitLookup",
                           !.found = getPool(tasks[t].poolId)],
          << >>)
    /\ UNCHANGED << poolLimit, poolSource, ammPools, lastLoad,
                    boxVars, instVars, tradeVars, vaultVars, balanceVars,
                    initVars >>

\* Faulty variant: the source is asked whatever the lookup found.
LookupMissedAlways(found) == TRUE
\* if (!pool)
LookupMissed(found) == found = Nothing

\* The lookup resumes: a known pool ends the call, an unknown one is
\* requested from the source.
LoadPoolDecide(t) ==
    /\ tasks[t].op = "loadPool" /\ tasks[t].pc = "awaitLookup"
    /\ IF LookupMissed(tasks[t].found)
       THEN tasks' = TasksAfter(t,
                [tasks[t] EXCEPT !.pc = "awaitSource", !.queried = TRUE,
                                 !.requests = 1],
                << >>)
       ELSE tasks' = TasksAfter(t, [tasks[t] EXCEPT !.pc = "done"], << >>)
    /\ UNCHANGED << poolLimit, poolSource, ammPools, lastLoad,
                    boxVars, instVars, tradeVars, vaultVars, balanceVars,
                    initVars >>

\* The source answers: the pool is pushed, or the call throws.
LoadPoolAnswer(t) ==
    /\ tasks[t].op = "loadPool" /\ tasks[t].pc = "awaitSource"
    /\ LET new_pool == SourceGet(tasks[t].poolId)
       IN IF new_pool = Nothing
          THEN /\ ammPools' = ammPools
               /\ tasks' = TasksAfter(t,
                     [tasks[t] EXCEPT !.pc = "failed",
                                      !.error = "PoolNotFound"],
                     << >>)
               /\ UNCHANGED lastLoad
          ELSE /\ ammPools' = Push(ammPools, new_pool)
               /\ tasks' = TasksAfter(t,
                     [tasks[t] EXCEPT !.pc = "done",
                                      !.pushed = << new_pool >>],
                     << new_pool >>)
               /\ lastLoad' = None
    /\ UNCHANGED << poolLimit, poolSource,
                    boxVars, instVars, tradeVars, vaultVars, balanceVars,
                    initVars >>

\* The request to the source fails: loadPool rejects with the transport error.
LoadPoolFail(t, e) ==
    /\ tasks[t].op = "loadPool" /\ tasks[t].pc = "awaitSource"
    /\ tasks' = TasksAfter(t, [tasks[t] EXCEPT !.pc = "failed", !.error = e],
                           << >>)
    /\ UNCHANGED << poolLimit, poolSource, ammPools, lastLoad,
                    boxVars, instVars, tradeVars, vaultVars, balanceVars,
                    initVars >>

\* The caller takes the outcome of its call.
LoadReturn(t) ==
    /\ tasks[t].pc \in {"done", "failed"}
    /\ tasks' = TasksAfter(t, IdleTask, << >>)
    /\ UNCHANGED << poolLimit, poolSource, ammPools, lastLoad,
                    boxVars, instVars, tradeVars, vaultVars, balanceVars,
                    initVars >>

(***************************************************************************)
(* InstanceRegistry: getInstance, getConnectedInstances                    *)
(***************************************************************************)
Networks == {"mainnet", "testnet"}
NetworkArgs == Networks \cup {"devnet"}

\* getErgoConfig(network).network.name
ConfigName(network) == network

\* The LRU cache: its bound, and its entries from most to least recently used.
KeysOf(cache) == {cache.entries[i].key : i \in DOMAIN cache.entries}
CachedKeys == IF instances = Nothing THEN {} ELSE KeysOf(instances)

\* LRUCache.has(key): no effect on recency.
LruHas(cache, key) == key \in KeysOf(cache)

Without(entries, key) == SelectSeq(entries, LAMBDA e : e.key # key)

\* LRUCache.get(key): the entry becomes the most recently used one.
LruGet(cache, key) ==
    LET e == CHOOSE x \in {cache.entries[i] : i \in DOMAIN cache.entries} :
                 x.key = key
    IN [value |-> e.value,
        cache |-> [cache EXCEPT !.entries = << e >> \o Without(@, key)]]

\* Faulty variant: nothing is ever dropped.
LruSetUnbounded(cache, key, value) ==
    [cache EXCEPT !.entries = << [key |-> key, value |-> value] >>
                              \o Without(@, key)]
\* LRUCache.set(key, value): the entry becomes the most recently used one and
\* the least recently used entries beyond `max` are dropped.
LruSet(cache, key, value) ==
    LET put == << [key |-> key, value |-> value] >> \o Without(cache.entries, key)
    IN [cache EXCEPT !.entries = SubSeq(put, 1, Min(Len(put), cache.max))]

\* Faulty variant: the cache is never consulted.
IsCachedNever(cache, key) == FALSE
\* Ergo._instances.has(config.network.name)
IsCached(cache, key) == LruHas(cache, key)

NoCall == [op |-> None, network |-> None, returned |-> Nothing, connected |-> {},
           created |-> FALSE, threw |-> FALSE]

Clients == {"u1", "u2"}

\* The networks whose entry is in `before` and no longer in `after`.
Dropped(before, after) == KeysOf(before) \ KeysOf(after)

\* Ergo.getInstance(network), called by client u
getInstance(u, network) ==
    /\ UNCHANGED << boxVars, poolVars, tradeVars, vaultVars, balanceVars, initVars >>
    /\ IF network \notin Networks
       THEN /\ lastCall' = [NoCall EXCEPT !.op = "getInstance",
                                         !.network = network, !.threw = TRUE]
            /\ UNCHANGED << maxLRUCacheInstances, instances, constructed, held,
                            evictions, vaultVars, balanceVars, initVars >>
       ELSE LET name == ConfigName(network)
                cache == IF instances = Nothing
                         THEN [max |-> maxLRUCacheInstances, entries |-> << >>]
                         ELSE instances
                fresh == [id |-> constructed + 1, network |-> network]
                miss == ~IsCached(cache, name)
                filled == IF miss THEN LruSet(cache, name, fresh) ELSE cache
                got == LruGet(filled, name)
            IN /\ miss => constructed < MaxConstructed
               /\ instances' = got.cache
               /\ constructed' = IF miss THEN constructed + 1 ELSE constructed
               /\ evictions' = [n \in Networks |->
                                  IF n \in Dropped(cache, got.cache)
                                  THEN evictions[n] + 1 ELSE evictions[n]]
               /\ held' = [held EXCEPT ![u] =
                              [instance |-> got.value,
                               generation |-> evictions'[network]]]
               /\ lastCall' = [NoCall EXCEPT !.op = "getInstance",
                                            !.network = network,
                                            !.returned = got.value,
                                            !.created = miss]
               /\ UNCHANGED maxLRUCacheInstances

\* for (const instance of keys) connectedInstances[instance] = get(instance):
\* the cache after the first n keys of the snapshot have been read.
RECURSIVE GetEach(_, _, _)
GetEach(cache, keys, n) ==
    IF n = 0 THEN cache
    ELSE LruGet(GetEach(cache, keys, n - 1), keys[n]).cache

\* Ergo.getConnectedInstances()
getConnectedInstances ==
    /\ IF instances = Nothing
       THEN /\ instances' = instances
            /\ lastCall' = [NoCall EXCEPT !.op = "getConnectedInstances"]
       ELSE LET keys == [i \in DOMAIN instances.entries |->
                            instances.entries[i].key]
            IN /\ instances' = GetEach(instances, keys, Len(keys))
               /\ lastCall' = [NoCall EXCEPT
                     !.op = "getConnectedInstances",
                     !.connected = {instances.entries[i] :
                                      i \in DOMAIN instances.entries}]
    /\ UNCHANGED << maxLRUCacheInstances, constructed, held, evictions,
                    boxVars, poolVars, tradeVars, vaultVars, balanceVars,
                    initVars >>

(***************************************************************************)
(* SwapEstimator: estimate, swap                                           *)
(***************************************************************************)
TradeTokens == {"A", "B", "C"}   \* no pool trades C
Amounts == {0, 1, 100}
Slippages == {0, 50}             \* 0: the argument is omitted
OutputAddresses == {"addr1", "not an address"}

\* config.network.defaultSlippage
defaultSlippage == 10
\* minerFee + uiFee + exFee, the native budget getInputs must cover
feeBudget == 3

\* AmmPool.outputAmount(input, maxSlippage): the constant-product output for
\* `input`, the reserve of the input side inflated by the slippage.
outputAmount(pool, input, maxSlippage) ==
    LET slippage == maxSlippage * 100
        feeDenom == 1000
    IN IF input.asset.id = pool.x.asset.id
       THEN [asset |-> pool.y.asset,
             amount |-> (pool.y.amount * input.amount * pool.poolFeeNum) \div
                        ((pool.x.amount + (pool.x.amount * slippage) \div 10000)
                             * feeDenom + input.amount * pool.poolFeeNum)]
       ELSE [asset |-> pool.x.asset,
             amount |-> (pool.x.amount * input.amount * pool.poolFeeNum) \div
                        ((pool.y.amount + (pool.y.amount * slippage) \div 10000)
                             * feeDenom + input.amount * pool.poolFeeNum)]

\* getBaseInputParameters(pool, {inputAmount, slippage})
getBaseInputParameters(pool, inputAmount, slippage) ==
    LET baseInput == inputAmount
    IN [baseInput |-> baseInput,
        baseInputAmount |-> baseInput.amount,
        minOutput |-> outputAmount(pool, baseInput, slippage)]

\* swapVars(minExFee, minNitro, minOutput): undefined unless minOutput > 0
swapVars(minOutput) ==
    IF minOutput.amount > 0
    THEN [minOutput |-> minOutput, maxExFee |-> 1]
    ELSE Nothing

RECURSIVE SumSeq(_, _)
SumSeq(f, n) == IF n = 0 THEN 0 ELSE f[n] + SumSeq(f, n - 1)

TokenAmount(box, tokenId) ==
    SumSeq([j \in DOMAIN box.assets |->
               IF box.assets[j].tokenId = tokenId THEN box.assets[j].amount
               ELSE 0],
           Len(box.assets))

\* getInputs(utxos, [asset], fees): the boxes cover the asset amount and the
\* native fee budget, or it throws.
InputsCover(utxos, tokenId, amount) ==
    /\ SumSeq([i \in DOMAIN utxos |-> TokenAmount(utxos[i], tokenId)],
              Len(utxos)) >= amount
    /\ SumSeq([i \in DOMAIN utxos |-> utxos[i].value], Len(utxos)) >= feeBudget

\* publicKeyFromAddress(output_address)
publicKeyFromAddress(address) ==
    IF address \in Addresses THEN [pk |-> address] ELSE Nothing

\* Faulty variant: an omitted slippage is taken as 0.
EffectiveSlippageRaw(slippage) == slippage
\* slippage || config.network.defaultSlippage
EffectiveSlippage(slippage) == IF slippage = 0 THEN defaultSlippage ELSE slippage

\* if (pool.x.asset.id === baseToken) sell = false; else sell = true;
Sell(pool, baseToken) == pool.x.asset.id # baseToken

\* The `max_to` of swap and estimate: the requested amount of the target side.
MaxTo(pool, sell, amount) ==
    [asset |-> IF sell THEN pool.x.asset ELSE pool.y.asset, amount |-> amount]

\* The `from` of estimate (lines 604-613).
EstimateFrom(pool, sell, amount, slippage) ==
    [asset |-> IF sell THEN pool.y.asset ELSE pool.x.asset,
     amount |-> outputAmount(pool, MaxTo(pool, sell, amount),
                             EffectiveSlippage(slippage)).amount]

\* estimate(baseToken, quoteToken, amount, slippage) on a catalog: the
\* rejection, or the PriceResponse together with the pool, the direction and
\* the `from` it was computed with.
EstimateOutcome(pools, baseToken, quoteToken, amount, slippage) ==
    LET idx == PoolIndexByToken(pools, baseToken, quoteToken)
    IN IF idx = 0
       THEN [ok |-> FALSE, error |-> "PoolNotFound"]
       ELSE LET pool == pools[idx]
                sell == Sell(pool, baseToken)
                from == EstimateFrom(pool, sell, amount, slippage)
                params == getBaseInputParameters(pool, from,
                                                 EffectiveSlippage(slippage))
            IN [ok |-> TRUE, base |-> baseToken, quote |-> quoteToken,
                amount |-> amount, expectedAmount |-> params.minOutput.amount,
                pool |-> pool, sell |-> sell, from |-> from]

NoEstimate == [outcome |-> Nothing, slippage |-> 0]

\* Faulty variant: estimate fetches the unspent boxes of an account, as swap
\* does.
EstimateCollecting(baseToken, quoteToken, amount, slippage) ==
    /\ swapCall.pc = "idle"
    /\ lastEstimate = NoEstimate
    /\ lastEstimate' = [outcome |-> EstimateOutcome(ammPools, baseToken,
                                                    quoteToken, amount, slippage),
                        slippage |-> slippage]
    /\ collect' = IF collect.pc = "idle" THEN StartedCollect("addr1") ELSE collect
    /\ UNCHANGED << swapCall, txSubmitted, utxosLimit, ledger, poolVars,
                    instVars, vaultVars, balanceVars, initVars >>

\* estimate(...): synchronous, one step; the outcome is kept with the
\* slippage argument of the call until the caller takes it.
Estimate(baseToken, quoteToken, amount, slippage) ==
    /\ swapCall.pc = "idle"
    /\ lastEstimate = NoEstimate
    /\ lastEstimate' = [outcome |-> EstimateOutcome(ammPools, baseToken,
                                                    quoteToken, amount, slippage),
                        slippage |-> slippage]
    /\ UNCHANGED << swapCall, txSubmitted, boxVars, poolVars, instVars,
                    vaultVars, balanceVars, initVars >>

\* The caller takes the outcome of estimate.
EstimateReturn ==
    /\ lastEstimate # NoEstimate
    /\ lastEstimate' = NoEstimate
    /\ UNCHANGED << swapCall, txSubmitted, boxVars, poolVars, instVars,
                    vaultVars, balanceVars, initVars >>

IdleSwap ==
    [pc |-> "idle", address |-> None, base |-> None, quote |-> None,
     amount |-> 0, slippage |-> 0, output_address |-> None,
     catalog |-> << >>, pool |-> Nothing, sell |-> FALSE,
     minOutput |-> Nothing, result |-> Nothing, error |-> None,
     utxos |-> << >>, txBefore |-> 0]

\* The slippage swap passes to outputAmount and getBaseInputParameters.
SwapSlippage(slippage) == EffectiveSlippage(slippage)

\* The `from` of swap (lines 497-506).
SwapFrom(pool, sell, amount, slippage) ==
    [asset |-> IF sell THEN pool.y.asset ELSE pool.x.asset,
     amount |-> outputAmount(pool, MaxTo(pool, sell, amount),
                             SwapSlippage(slippage)).amount]

\* swap(...) up to its first await: the pool is resolved and the network
\* context requested; without a pool the call rejects.
SwapStart(address, baseToken, quoteToken, amount, output_address, slippage) ==
    /\ swapCall.pc = "idle"
    /\ txSubmitted < MaxTx
    /\ LET pool == getPoolByToken(baseToken, quoteToken)
           call == [IdleSwap EXCEPT !.address = address, !.base = baseToken,
                                    !.quote = quoteToken, !.amount = amount,
                                    !.slippage = slippage,
                                    !.output_address = output_address,
                                    !.catalog = ammPools,
                                    !.txBefore = txSubmitted]
       IN IF pool = Nothing
          THEN swapCall' = [call EXCEPT !.pc = "failed",
                                        !.error = "PoolNotFound"]
          ELSE swapCall' = [call EXCEPT !.pc = "awaitContext", !.pool = pool,
                                        !.sell = Sell(pool, baseToken)]
    /\ UNCHANGED << lastEstimate, txSubmitted, boxVars, poolVars, instVars,
                    vaultVars, balanceVars, initVars >>

\* The network context arrives: the unspent boxes of the account are collected.
SwapContext ==
    /\ swapCall.pc = "awaitContext"
    /\ collect.pc = "idle"
    /\ swapCall' = [swapCall EXCEPT !.pc = "awaitUtxos"]
    /\ collect' = StartedCollect(swapCall.address)
    /\ UNCHANGED << lastEstimate, txSubmitted, utxosLimit, ledger, poolVars,
                    instVars, vaultVars, balanceVars, initVars >>

\* Faulty variant: the transaction is built whatever the output address.
NoPublicKeyNever(pk) == FALSE
\* if (!pk) throw ...
NoPublicKey(pk) == pk = Nothing

\* The boxes are collected: lines 484-563, up to the request for the block.
SwapPrepare ==
    /\ swapCall.pc = "awaitUtxos"
    /\ collect.pc = "done"
    /\ collect' = IdleCollect
    /\ LET pool == swapCall.pool
           from == SwapFrom(pool, swapCall.sell, swapCall.amount,
                            swapCall.slippage)
           params == getBaseInputParameters(pool, from,
                                            SwapSlippage(swapCall.slippage))
           swapVariables == swapVars(params.minOutput)
           Fail(e) == [swapCall EXCEPT !.pc = "failed", !.error = e,
                                       !.utxos = collect.utxos]
       IN swapCall' =
            IF from.amount = 0 THEN Fail("InsufficientLiquidity")
            ELSE IF swapVariables = Nothing THEN Fail("SwapVarsUnsatisfiable")
            ELSE IF ~InputsCover(collect.utxos, from.asset.id,
                                 params.baseInputAmount)
                 THEN Fail("InsufficientFunds")
            ELSE IF NoPublicKey(publicKeyFromAddress(swapCall.output_address))
                 THEN Fail("NoPublicKey")
            ELSE [swapCall EXCEPT !.pc = "awaitBlock",
                                  !.minOutput = params.minOutput,
                                  !.utxos = collect.utxos]
    /\ UNCHANGED << lastEstimate, txSubmitted, utxosLimit, ledger, poolVars,
                    instVars, vaultVars, balanceVars, initVars >>

\* The collection failed: swap rejects with its error.
SwapUtxosFailed ==
    /\ swapCall.pc = "awaitUtxos"
    /\ collect.pc = "failed"
    /\ collect' = IdleCollect
    /\ swapCall' = [swapCall EXCEPT !.pc = "failed", !.error = collect.error]
    /\ UNCHANGED << lastEstimate, txSubmitted, utxosLimit, ledger, poolVars,
                    instVars, vaultVars, balanceVars, initVars >>

\* The block header arrives: the transaction goes to actions.swap.
SwapSubmit ==
    /\ swapCall.pc = "awaitBlock"
    /\ swapCall' = [swapCall EXCEPT !.pc = "awaitTx"]
    /\ txSubmitted' = txSubmitted + 1
    /\ UNCHANGED << lastEstimate, boxVars, poolVars, instVars,
                    vaultVars, balanceVars, initVars >>

\* actions.swap resolves: the TradeResponse is returned.
SwapDone ==
    /\ swapCall.pc = "awaitTx"
    /\ swapCall' = [swapCall EXCEPT
          !.pc = "done",
          !.result = [base |-> swapCall.base, quote |-> swapCall.quote,
                      amount |-> swapCall.amount,
                      expectedOut |-> swapCall.minOutput.amount,
                      txHash |-> txSubmitted]]
    /\ UNCHANGED << lastEstimate, txSubmitted, boxVars, poolVars, instVars,
                    vaultVars, balanceVars, initVars >>

\* One of the awaited requests of swap (network context, block, actions.swap)
\* fails: swap rejects with the transport error.
SwapFail(e) ==
    /\ swapCall.pc \in {"awaitContext", "awaitBlock", "awaitTx"}
    /\ swapCall' = [swapCall EXCEPT !.pc = "failed", !.error = e]
    /\ UNCHANGED << lastEstimate, txSubmitted, boxVars, poolVars, instVars,
                    vaultVars, balanceVars, initVars >>

\* The caller takes the outcome of swap.
SwapReturn ==
    /\ swapCall.pc \in {"done", "failed"}
    /\ swapCall' = IdleSwap
    /\ UNCHANGED << lastEstimate, txSubmitted, boxVars, poolVars, instVars,
                    vaultVars, balanceVars, initVars >>

(***************************************************************************)
(* SecretVault: encrypt, decrypt                                           *)
(*                                                                         *)
(* A secret and a password are JavaScript strings, modelled as sequences   *)
(* of code units; a buffer is a sequence of bytes 0..255; the encrypted    *)
(* secret is a sequence of characters.                                     *)
(***************************************************************************)
\* randomBytes(16): the IV, one cipher block
BlockLen == 16
\* Buffer.alloc(32): the key
KeyLen == 32

MaxSecretLen == 17      \* longest secret encrypted
MaxPasswordLen == 33    \* longest password used

Rep(x, n) == [i \in 1..n |-> x]

LoneSurrogate == 55296      \* the code unit U+D800, unpaired
ReplacementChar == 65533    \* U+FFFD

IsSurrogate(cu) == cu \in 55296..57343
WellFormedString(str) == \A i \in DOMAIN str : ~IsSurrogate(str[i])

\* The UTF-8 bytes of one code unit; an unpaired surrogate is written as U+FFFD.
Utf8Encode(cu) ==
    IF cu < 128 THEN << cu >>
    ELSE IF cu < 2048 THEN << 192 + (cu \div 64), 128 + (cu % 64) >>
    ELSE IF IsSurrogate(cu) THEN << 239, 191, 189 >>
    ELSE << 224 + (cu \div 4096), 128 + ((cu \div 64) % 64), 128 + (cu % 64) >>

\* Buffer.from(str, 'utf8'), as cipher.update(secret) takes a string
RECURSIVE Utf8Bytes(_)
Utf8Bytes(str) ==
    IF str = << >> THEN << >> ELSE Utf8Encode(Head(str)) \o Utf8Bytes(Tail(str))

IsContinuation(b) == b \in 128..191

\* Buffer.toString(): the UTF-8 decoding of the bytes from index i on; a byte
\* that starts no valid sequence decodes to U+FFFD.
RECURSIVE Utf8DecodeFrom(_, _)
Utf8DecodeFrom(bytes, i) ==
    IF i > Len(bytes) THEN << >>
    ELSE LET b == bytes[i]
             two == /\ b \in 194..223 /\ i + 1 <= Len(bytes)
                    /\ IsContinuation(bytes[i + 1])
             three == /\ b \in 224..239 /\ i + 2 <= Len(bytes)
                      /\ IsContinuation(bytes[i + 1])
                      /\ IsContinuation(bytes[i + 2])
             cu3 == (b - 224) * 4096 + (bytes[i + 1] - 128) * 64
                        + (bytes[i + 2] - 128)
         IN IF b < 128 THEN << b >> \o Utf8DecodeFrom(bytes, i + 1)
            ELSE IF two
                 THEN << (b - 192) * 64 + (bytes[i + 1] - 128) >>
                          \o Utf8DecodeFrom(bytes, i + 2)
            ELSE IF three /\ cu3 >= 2048 /\ ~IsSurrogate(cu3)
                 THEN << cu3 >> \o Utf8DecodeFrom(bytes, i + 3)
            ELSE << ReplacementChar >> \o Utf8DecodeFrom(bytes, i + 1)

Utf8Decode(bytes) == Utf8DecodeFrom(bytes, 1)

HexDigits == << "0", "1", "2", "3", "4", "5", "6", "7",
                "8", "9", "a", "b", "c", "d", "e", "f" >>

\* Buffer.toString('hex')
ToHex(bytes) ==
    [i \in 1..(2 * Len(bytes)) |->
        IF i % 2 = 1 THEN HexDigits[(bytes[(i + 1) \div 2] \div 16) + 1]
        ELSE HexDigits[(bytes[i \div 2] % 16) + 1]]

IsHexDigit(ch) == \E d \in DOMAIN HexDigits : HexDigits[d] = ch
HexVal(ch) == (CHOOSE d \in DOMAIN HexDigits : HexDigits[d] = ch) - 1

\* Buffer.from(str, 'hex'): the bytes of the leading pairs of hex digits;
\* decoding stops at the first pair that is not two hex digits.
RECURSIVE FromHexAt(_, _)
FromHexAt(str, i) ==
    IF i + 1 > Len(str) THEN << >>
    ELSE IF ~IsHexDigit(str[i]) \/ ~IsHexDigit(str[i + 1]) THEN << >>
    ELSE << 16 * HexVal(str[i]) + HexVal(str[i + 1]) >> \o FromHexAt(str, i + 2)

FromHex(str) == FromHexAt(str, 1)

\* String.prototype.split(':')
RECURSIVE Split(_)
Split(str) ==
    LET seps == {i \in DOMAIN str : str[i] = ":"}
    IN IF seps = {} THEN << str >>
       ELSE LET k == CHOOSE i \in seps : \A j \in seps : i <= j
            IN << SubSeq(str, 1, k - 1) >> \o Split(SubSeq(str, k + 1, Len(str)))

\* key.write(password): the UTF-8 bytes of the leading characters of the
\* password that fit into the key whole.
RECURSIVE WriteFitting(_, _)
WriteFitting(str, room) ==
    IF str = << >> THEN << >>
    ELSE LET e == Utf8Encode(Head(str))
         IN IF Len(e) > room THEN << >>
            ELSE e \o WriteFitting(Tail(str), room - Len(e))

\* Faulty variant: the whole password is the key, however long.
KeyFromPasswordWhole(password) == Utf8Bytes(password)
\* const key = Buffer.alloc(32); key.write(password)
KeyFromPassword(password) ==
    LET written == WriteFitting(password, KeyLen)
    IN written \o Rep(0, KeyLen - Len(written))

\* The block cipher keyed by a 32-byte key: a keyed permutation of the
\* 16-byte blocks (each byte is shifted by the key bytes of its position).
KeyShift(key, i) == (key[i] + 3 * key[i + BlockLen]) % 256
EncryptBlock(key, block) ==
    [i \in 1..BlockLen |-> (block[i] + KeyShift(key, i)) % 256]
DecryptBlock(key, block) ==
    [i \in 1..BlockLen |-> (block[i] + 256 - KeyShift(key, i)) % 256]

\* PKCS padding: n bytes of value n, 1 <= n <= BlockLen, fill the last block.
Pad(bytes) ==
    LET n == BlockLen - (Len(bytes) % BlockLen) IN bytes \o Rep(n, n)
ValidPadding(bytes) ==
    /\ Len(bytes) > 0
    /\ LET n == bytes[Len(bytes)]
       IN /\ n \in 1..BlockLen
          /\ \A i \in (Len(bytes) - n + 1)..Len(bytes) : bytes[i] = n
Unpad(bytes) == SubSeq(bytes, 1, Len(bytes) - bytes[Len(bytes)])

\* CBC chaining: each block is mixed with the previous ciphertext block (the
\* IV for the first) before it is enciphered.
RECURSIVE CbcEncrypt(_, _, _)
CbcEncrypt(key, prev, data) ==
    IF data = << >> THEN << >>
    ELSE LET mixed == [i \in 1..BlockLen |-> (data[i] + prev[i]) % 256]
             c == EncryptBlock(key, mixed)
         IN c \o CbcEncrypt(key, c, SubSeq(data, BlockLen + 1, Len(data)))

RECURSIVE CbcDecrypt(_, _, _)
CbcDecrypt(key, prev, data) ==
    IF data = << >> THEN << >>
    ELSE LET c == SubSeq(data, 1, BlockLen)
             mixed == DecryptBlock(key, c)
             plain == [i \in 1..BlockLen |-> (mixed[i] + 256 - prev[i]) % 256]
         IN plain \o CbcDecrypt(key, c, SubSeq(data, BlockLen + 1, Len(data)))

\* Faulty variant: the ciphertext is written before the IV.
EncryptedStringSwapped(iv, encrypted) ==
    ToHex(encrypted) \o << ":" >> \o ToHex(iv)
\* `${iv.toString('hex')}:${encrypted.toString('hex')}`
EncryptedString(iv, encrypted) == ToHex(iv) \o << ":" >> \o ToHex(encrypted)

\* encrypt(secret, password), with the IV randomBytes(16) draws
encrypt(secret, password, iv) ==
    LET key == KeyFromPassword(password)
        encrypted == CbcEncrypt(key, iv, Pad(Utf8Bytes(secret)))
    IN EncryptedString(iv, encrypted)

Decrypted(value) == [ok |-> TRUE, value |-> value, error |-> None]
Thrown(error) == [ok |-> FALSE, value |-> << >>, error |-> error]

\* decrypt(encryptedSecret, password): the string returned, or the error
\* thrown on the way.
decrypt(encryptedSecret, password) ==
    LET fields == Split(encryptedSecret)
        iv == FromHex(fields[1])
        key == KeyFromPassword(password)
    IN IF Len(iv) # BlockLen THEN Thrown("InvalidIV")
       ELSE IF Len(fields) < 2 THEN Thrown("TypeError")
       ELSE LET data == FromHex(fields[2])
                plain == CbcDecrypt(key, iv, data)
            IN IF Len(data) = 0 \/ Len(data) % BlockLen # 0
               THEN Thrown("DecryptionFailed")
               ELSE IF ~ValidPadding(plain) THEN Thrown("DecryptionFailed")
               ELSE Decrypted(Utf8Decode(Unpad(plain)))

\* The inputs of the vault.
Secrets ==
    {Rep(115, n) : n \in {0, 1, BlockLen - 1, BlockLen, MaxSecretLen}}
        \cup {<< 233 >>, << 115, LoneSurrogate >>}
Passwords ==
    {<< 97 >>, << 97, 0 >>, << 98 >>, Rep(97, KeyLen),
     Rep(97, MaxPasswordLen - 1) \o << 98 >>,
     Rep(97, MaxPasswordLen - 1) \o << 99 >>}
IVs == {Rep(0, BlockLen), [i \in 1..BlockLen |-> (37 * i) % 256]}

\* What a caller may hand to decrypt for a stored encrypted secret: the
\* string itself, or the string damaged on the way.
Damages == {"none", "noSeparator", "extraField", "nonHexTail", "nonHexIv",
            "truncated"}
Present(stored, damage) ==
    LET k == CHOOSE i \in DOMAIN stored : stored[i] = ":"
    IN CASE damage = "none" -> stored
         [] damage = "noSeparator" ->
              SubSeq(stored, 1, k - 1) \o SubSeq(stored, k + 1, Len(stored))
         [] damage = "extraField" -> stored \o << ":", "0", "0" >>
         [] damage = "nonHexTail" -> stored \o << "z", "z" >>
         [] damage = "nonHexIv" -> << "z" >> \o Tail(stored)
         [] damage = "truncated" -> SubSeq(stored, 1, Len(stored) - 2)

IdleVault ==
    [pc |-> "idle", secret |-> << >>, password |-> << >>, iv |-> << >>,
     stored |-> << >>, presented |-> << >>, password2 |-> << >>,
     outcome |-> Nothing]

\* encrypt(secret, password) is called and its result stored.
Encrypt(secret, password, iv) ==
    /\ vault.pc = "idle"
    /\ vault' = [IdleVault EXCEPT !.pc = "encrypted", !.secret = secret,
                                  !.password = password, !.iv = iv,
                                  !.stored = encrypt(secret, password, iv)]
    /\ UNCHANGED << boxVars, poolVars, instVars, tradeVars, balanceVars, initVars >>

\* decrypt(encryptedSecret, password) is called on what the caller presents.
Decrypt(damage, password) ==
    /\ vault.pc = "encrypted"
    /\ LET encryptedSecret == Present(vault.stored, damage)
       IN vault' = [vault EXCEPT !.pc = "decrypted",
                                 !.presented = encryptedSecret,
                                 !.password2 = password,
                                 !.outcome = decrypt(encryptedSecret, password)]
    /\ UNCHANGED << boxVars, poolVars, instVars, tradeVars, balanceVars, initVars >>

\* The caller takes the outcome of decrypt.
VaultReturn ==
    /\ vault.pc = "decrypted"
    /\ vault' = IdleVault
    /\ UNCHANGED << boxVars, poolVars, instVars, tradeVars, balanceVars, initVars >>

(***************************************************************************)
(* Balances: loadAssets, getAssetBalance, getBalance                       *)
(***************************************************************************)
AssetNames == {"sigusd", "Rsn", "ERGOPAD", "doge"}

\* The tokens the DEX service lists (getAssetData): token C is held by no box.
AssetData ==
    << [name |-> "SigUSD", address |-> "A"],
       [name |-> "Rsn", address |-> "B"],
       [name |-> "ErgoPad", address |-> "C"] >>

\* String.prototype.toUpperCase, on the names in use
ToUpperCase(name) ==
    CASE name \in {"SigUSD", "sigusd", "SIGUSD"} -> "SIGUSD"
      [] name \in {"Rsn", "rsn", "RSN"} -> "RSN"
      [] name \in {"ErgoPad", "ergopad", "ERGOPAD"} -> "ERGOPAD"
      [] name \in {"doge", "DOGE"} -> "DOGE"

\* map[key] = value, on a Record<string, ...>
SetKey(map, key, value) ==
    [k \in DOMAIN map \cup {key} |-> IF k = key THEN value ELSE map[k]]
\* map[key]: undefined for a key that was never set
GetKey(map, key) == IF key \in DOMAIN map THEN map[key] ELSE Nothing

\* loadAssets: the asset catalog after the first n tokens were entered.
RECURSIVE loadAssets(_, _, _)
loadAssets(map, tokens, n) ==
    IF n = 0 THEN map
    ELSE SetKey(loadAssets(map, tokens, n - 1), ToUpperCase(tokens[n].name),
                [tokenId |-> tokens[n].address, name |-> tokens[n].name])

\* Faulty variant: every asset entry counts for the asset.
MatchesAssetAlways(asset, ergoAsset) == TRUE
\* asset.tokenId === ergoAsset.tokenId.toString()
MatchesAsset(asset, ergoAsset) == asset.tokenId = ergoAsset.tokenId

\* box.assets.filter(...).reduce(...): the matching amounts of one box
BoxAssetTotal(box, ergoAsset) ==
    SumSeq([j \in DOMAIN box.assets |->
               IF MatchesAsset(box.assets[j], ergoAsset)
               THEN box.assets[j].amount ELSE 0],
           Len(box.assets))

\* utxos.reduce(...): the balance of getAssetBalance
AssetTotal(utxos, ergoAsset) ==
    SumSeq([i \in DOMAIN utxos |-> BoxAssetTotal(utxos[i], ergoAsset)],
           Len(utxos))

\* BigNumber.prototype.toString, for a non-negative integer below 10^21: its
\* decimal digits.
RECURSIVE toDecimalString(_)
toDecimalString(n) ==
    IF n < 10 THEN << HexDigits[n + 1] >>
    ELSE toDecimalString(n \div 10) \o << HexDigits[(n % 10) + 1] >>

\* Faulty variant: an unknown asset goes on to the collection.
AssetMissingNever(ergoAsset) == FALSE
\* if (!ergoAsset) throw ...
AssetMissing(ergoAsset) == ergoAsset = Nothing

\* Faulty variant: the error caught is thrown on.
WrapErrorRethrow(error) == error
\* catch (error) { throw new Error(`problem during finding account assets
\* ${this._chain} Node!`) }
WrapError(error) == "problem during finding account assets ergo Node!"

IdleAssetCall ==
    [pc |-> "idle", address |-> None, assetName |-> None, ergoAsset |-> Nothing,
     utxos |-> << >>, cause |-> None, failedAt |-> 0, result |-> << >>,
     error |-> None]

\* getAssetBalance(account, assetName) up to its await: the asset is looked
\* up; unknown, the call rejects; known, the unspent boxes are requested.
AssetBalanceStart(address, assetName) ==
    /\ assetCall.pc = "idle"
    /\ collect.pc = "idle"
    /\ LET ergoAsset == GetKey(assetMap, ToUpperCase(assetName))
           call == [IdleAssetCall EXCEPT !.address = address,
                                         !.assetName = assetName,
                                         !.ergoAsset = ergoAsset]
       IN IF AssetMissing(ergoAsset)
          THEN /\ assetCall' = [call EXCEPT !.pc = "failed",
                                            !.error = "assetName not found"]
               /\ collect' = collect
          ELSE /\ assetCall' = [call EXCEPT !.pc = "awaitUtxos"]
               /\ collect' = StartedCollect(address)
    /\ UNCHANGED << utxosLimit, ledger, assetMap, lastBalance, poolVars,
                    instVars, tradeVars, vaultVars, initVars >>

\* The boxes are collected: the reduce runs inside the try. (With ergoAsset
\* undefined the filter callback throws on the first asset entry it sees.)
AssetBalanceSum ==
    /\ assetCall.pc = "awaitUtxos"
    /\ collect.pc = "done"
    /\ collect' = IdleCollect
    /\ LET utxos == collect.utxos
           ergoAsset == assetCall.ergoAsset
           call == [assetCall EXCEPT !.utxos = utxos]
       IN assetCall' =
            IF ergoAsset # Nothing
            THEN [call EXCEPT !.pc = "done",
                              !.result = toDecimalString(AssetTotal(utxos, ergoAsset))]
            ELSE IF \E i \in DOMAIN utxos : utxos[i].assets # << >>
                 THEN [call EXCEPT !.pc = "failed", !.cause = "TypeError",
                                   !.error = WrapError("TypeError")]
                 ELSE [call EXCEPT !.pc = "done", !.result = toDecimalString(0)]
    /\ UNCHANGED << utxosLimit, ledger, assetMap, lastBalance, poolVars,
                    instVars, tradeVars, vaultVars, initVars >>

\* The collection rejected: the catch clause replaces the error.
AssetBalanceCatch ==
    /\ assetCall.pc = "awaitUtxos"
    /\ collect.pc = "failed"
    /\ collect' = IdleCollect
    /\ assetCall' = [assetCall EXCEPT !.pc = "failed",
                                      !.cause = collect.error,
                                      !.failedAt = collect.requests,
                                      !.error = WrapError(collect.error)]
    /\ UNCHANGED << utxosLimit, ledger, assetMap, lastBalance, poolVars,
                    instVars, tradeVars, vaultVars, initVars >>

\* The caller takes the outcome of getAssetBalance.
AssetBalanceReturn ==
    /\ assetCall.pc \in {"done", "failed"}
    /\ assetCall' = IdleAssetCall
    /\ UNCHANGED << boxVars, assetMap, lastBalance, poolVars, instVars,
                    tradeVars, vaultVars, initVars >>

\* Faulty variant: a token seen again replaces its total.
AddAssetOverwrite(assets, asset) == SetKey(assets, asset.tokenId, asset.amount)
\* if (Object.keys(assets).includes(asset.tokenId)) assets[asset.tokenId] =
\* assets[asset.tokenId].plus(asset.amount); else assets[asset.tokenId] = amount
AddAsset(assets, asset) ==
    IF asset.tokenId \in DOMAIN assets
    THEN SetKey(assets, asset.tokenId, assets[asset.tokenId] + asset.amount)
    ELSE SetKey(assets, asset.tokenId, asset.amount)

\* box.assets.forEach(...): the first n entries of a box added
RECURSIVE AddBoxAssets(_, _, _)
AddBoxAssets(assets, entries, n) ==
    IF n = 0 THEN assets
    ELSE AddAsset(AddBoxAssets(assets, entries, n - 1), entries[n])

\* utxos.forEach(...): the first n boxes added
RECURSIVE AddBoxes(_, _, _)
AddBoxes(assets, utxos, n) ==
    IF n = 0 THEN assets
    ELSE LET sofar == AddBoxes(assets, utxos, n - 1)
         IN AddBoxAssets(sofar, utxos[n].assets, Len(utxos[n].assets))

\* getBalance(utxos)
getBalance(utxos) ==
    [balance |-> SumSeq([i \in DOMAIN utxos |-> utxos[i].value], Len(utxos)),
     assets |-> AddBoxes(<< >>, utxos, Len(utxos))]

NoBalance == [utxos |-> << >>, result |-> Nothing]

\* getBalance is called on the unspent boxes of an address.
GetBalance(address) ==
    /\ lastBalance = NoBalance
    /\ lastBalance' = [utxos |-> ledger[address],
                       result |-> getBalance(ledger[address])]
    /\ UNCHANGED << boxVars, assetMap, assetCall, poolVars, instVars,
                    tradeVars, vaultVars, initVars >>

\* The caller takes the result of getBalance.
BalanceReturn ==
    /\ lastBalance # NoBalance
    /\ lastBalance' = NoBalance
    /\ UNCHANGED << boxVars, assetMap, assetCall, poolVars, instVars,
                    tradeVars, vaultVars, initVars >>

(***************************************************************************)
(* Initialisation: init, ready                                             *)
(***************************************************************************)
IdleInit == [pc |-> "idle", error |-> None]

\* Faulty variant: init does not wait for loadPools to return.
InitPoolsFinishedEarly(task) == task.pc \in {"awaitPage", "done"}
\* await this.loadPools() has returned
InitPoolsFinished(task) == task.pc = "done"

\* init(): await RustModule.load(true)
InitStart ==
    /\ initCall.pc = "idle"
    /\ tasks["init"].pc = "idle"
    /\ initCall' = [IdleInit EXCEPT !.pc = "awaitModule"]
    /\ UNCHANGED << ready, boxVars, poolVars, instVars, tradeVars, vaultVars,
                    balanceVars >>

\* The module is loaded: loadAssets is called and requests the token list.
InitModule ==
    /\ initCall.pc = "awaitModule"
    /\ initCall' = [initCall EXCEPT !.pc = "awaitAssets"]
    /\ UNCHANGED << ready, boxVars, poolVars, instVars, tradeVars, vaultVars,
                    balanceVars >>

\* The token list arrives: loadAssets fills the asset catalog and returns,
\* loadPools is called and requests its first page.
InitAssets ==
    /\ initCall.pc = "awaitAssets"
    /\ assetMap' = loadAssets(assetMap, AssetData, Len(AssetData))
    /\ tasks' = TasksAfter("init",
          [IdleTask EXCEPT !.op = "loadPools", !.pc = "awaitPage",
                           !.requests = 1,
                           !.afterLoadAll = (lastLoad = "loadPools")],
          << >>)
    /\ initCall' = [initCall EXCEPT !.pc = "awaitPools"]
    /\ UNCHANGED << ready, poolLimit, poolSource, ammPools, lastLoad, assetCall,
                    lastBalance, boxVars, instVars, tradeVars, vaultVars >>

\* loadPools has returned: this._ready = true, and init returns.
InitPoolsDone ==
    /\ initCall.pc = "awaitPools"
    /\ InitPoolsFinished(tasks["init"])
    /\ ready' = TRUE
    /\ initCall' = [initCall EXCEPT !.pc = "done"]
    /\ UNCHANGED << boxVars, poolVars, instVars, tradeVars, vaultVars,
                    balanceVars >>

\* init rejects with e: the module load or the request for the token list
\* fails, or loadPools has rejected with e.
InitFail(e) ==
    /\ \/ initCall.pc \in {"awaitModule", "awaitAssets"}
       \/ /\ initCall.pc = "awaitPools"
          /\ tasks["init"].pc = "failed"
          /\ tasks["init"].error = e
    /\ initCall' = [initCall EXCEPT !.pc = "failed", !.error = e]
    /\ UNCHANGED << ready, boxVars, poolVars, instVars, tradeVars, vaultVars,
                    balanceVars >>

\* The caller takes the outcome of init.
InitReturn ==
    /\ initCall.pc \in {"done", "failed"}
    /\ tasks["init"].pc \in {"idle", "done", "failed"}
    /\ initCall' = IdleInit
    /\ tasks' = TasksAfter("init", IdleTask, << >>)
    /\ UNCHANGED << ready, poolLimit, poolSource, ammPools, lastLoad, boxVars,
                    instVars, tradeVars, vaultVars, balanceVars >>

(***************************************************************************)
(* Specifications                                                          *)
(***************************************************************************)
NoLoad == None

QuietBoxes ==
    /\ utxosLimit = MaxUtxosLimit
    /\ ledger = [a \in Addresses |-> << >>]
    /\ collect = IdleCollect

QuietPools ==
    /\ poolLimit = MaxPoolLimit
    /\ poolSource = << >>
    /\ ammPools = << >>
    /\ tasks = [t \in Callers |-> IdleTask]
    /\ lastLoad = NoLoad

QuietInstances ==
    /\ maxLRUCacheInstances = 1
    /\ instances = Nothing
    /\ constructed = 0
    /\ lastCall = NoCall
    /\ held = [u \in Clients |-> Nothing]
    /\ evictions = [n \in Networks |-> 0]

QuietTrade ==
    /\ swapCall = IdleSwap
    /\ lastEstimate = NoEstimate
    /\ txSubmitted = 0

QuietVault == vault = IdleVault

QuietBalance ==
    /\ assetMap = << >>
    /\ assetCall = IdleAssetCall
    /\ lastBalance = NoBalance

\* The box collector against every ledger and page size.
InitBoxes ==
    /\ utxosLimit \in 1..MaxUtxosLimit
    /\ ledger \in [Addresses -> {BoxList(n) : n \in 0..MaxBoxes}]
    /\ collect = IdleCollect
    /\ QuietPools /\ QuietInstances /\ QuietTrade /\ QuietVault /\ QuietBalance
    /\ initCall = IdleInit /\ ready = FALSE

NextBoxes ==
    \/ \E address \in Addresses : CollectStart(address)
    \/ CollectPage
    \/ \E e \in Errors : CollectFail(e)
    \/ CollectReturn
    \/ \E address \in Addresses : LedgerSpend(address)

SpecBoxes == InitBoxes /\ [][NextBoxes]_vars

\* The pool catalog of one connector instance, its callers interleaved.
InitPools ==
    /\ poolLimit \in 1..MaxPoolLimit
    /\ poolSource \in PoolSources
    /\ ammPools = << >>
    /\ tasks = [t \in Callers |-> IdleTask]
    /\ lastLoad = NoLoad
    /\ QuietBoxes /\ QuietInstances /\ QuietTrade /\ QuietVault /\ QuietBalance
    /\ initCall = IdleInit /\ ready = FALSE

NextPools ==
    \/ \E t \in Callers : LoadPoolsStart(t)
    \/ \E t \in Callers : LoadPoolsPage(t)
    \/ \E t \in Callers, e \in Errors : LoadPoolsFail(t, e)
    \/ \E t \in Callers, poolId \in PoolIds : LoadPoolStart(t, poolId)
    \/ \E t \in Callers : LoadPoolLookup(t)
    \/ \E t \in Callers : LoadPoolDecide(t)
    \/ \E t \in Callers : LoadPoolAnswer(t)
    \/ \E t \in Callers, e \in Errors : LoadPoolFail(t, e)
    \/ \E t \in Callers : LoadReturn(t)

SpecPools == InitPools /\ [][NextPools]_vars

\* The instance registry of the process.
InitInstances ==
    /\ maxLRUCacheInstances \in 1..MaxCacheSize
    /\ instances = Nothing
    /\ constructed = 0
    /\ lastCall = NoCall
    /\ held = [u \in Clients |-> Nothing]
    /\ evictions = [n \in Networks |-> 0]
    /\ QuietBoxes /\ QuietPools /\ QuietTrade /\ QuietVault /\ QuietBalance
    /\ initCall = IdleInit /\ ready = FALSE

NextInstances ==
    \/ \E u \in Clients, network \in NetworkArgs : getInstance(u, network)
    \/ getConnectedInstances

SpecInstances == InitInstances /\ [][NextInstances]_vars

\* estimate and swap on an initialised connector: the catalog is what
\* loadPools leaves for some source.
InitSwap ==
    /\ utxosLimit = MaxUtxosLimit
    /\ ledger = [a \in Addresses |->
                   IF a = "addr1" THEN BoxList(MaxBoxes) ELSE BoxList(1)]
    /\ collect = IdleCollect
    /\ poolLimit = MaxPoolLimit
    /\ poolSource \in PoolSources
    /\ ammPools = MergePage(<< >>, poolSource, Len(poolSource))
    /\ tasks = [t \in Callers |-> IdleTask]
    /\ lastLoad = NoLoad
    /\ QuietInstances /\ QuietTrade /\ QuietVault /\ QuietBalance
    /\ initCall = IdleInit /\ ready = TRUE

NextSwap ==
    \/ CollectPage
    \/ \E e \in Errors : CollectFail(e)
    \/ \E address \in Addresses, baseToken, quoteToken \in TradeTokens,
          amount \in Amounts, output_address \in OutputAddresses,
          slippage \in Slippages :
          SwapStart(address, baseToken, quoteToken, amount, output_address,
                    slippage)
    \/ SwapContext
    \/ SwapPrepare
    \/ SwapUtxosFailed
    \/ SwapSubmit
    \/ SwapDone
    \/ \E e \in Errors : SwapFail(e)
    \/ SwapReturn
    \/ \E baseToken, quoteToken \in TradeTokens, amount \in Amounts,
          slippage \in Slippages :
          Estimate(baseToken, quoteToken, amount, slippage)
    \/ EstimateReturn

SpecSwap == InitSwap /\ [][NextSwap]_vars

\* The vault: secrets encrypted under one password, decrypted under any.
InitVault ==
    /\ vault = IdleVault
    /\ QuietBoxes /\ QuietPools /\ QuietInstances /\ QuietTrade /\ QuietBalance
    /\ initCall = IdleInit /\ ready = FALSE

NextVault ==
    \/ \E secret \in Secrets, password \in Passwords, iv \in IVs :
          Encrypt(secret, password, iv)
    \/ \E damage \in Damages, password \in Passwords : Decrypt(damage, password)
    \/ VaultReturn

SpecVault == InitVault /\ [][NextVault]_vars

\* Balances of an initialised connector: the asset catalog is what
\* loadAssets leaves, the account's address holds any list of boxes.
InitBalance ==
    /\ utxosLimit \in 1..MaxUtxosLimit
    /\ ledger \in {[a \in Addresses |->
                       IF a = "addr1" THEN BoxList(n) ELSE << >>] :
                   n \in 0..MaxBoxes}
    /\ collect = IdleCollect
    /\ assetMap = loadAssets(<< >>, AssetData, Len(AssetData))
    /\ assetCall = IdleAssetCall
    /\ lastBalance = NoBalance
    /\ QuietPools /\ QuietInstances /\ QuietTrade /\ QuietVault
    /\ initCall = IdleInit /\ ready = TRUE

NextBalance ==
    \/ \E address \in Addresses, assetName \in AssetNames :
          AssetBalanceStart(address, assetName)
    \/ CollectPage
    \/ \E e \in Errors : CollectFail(e)
    \/ AssetBalanceSum
    \/ AssetBalanceCatch
    \/ AssetBalanceReturn
    \/ \E address \in Addresses : LedgerSpend(address)
    \/ \E address \in Addresses : GetBalance(address)
    \/ BalanceReturn

SpecBalance == InitBalance /\ [][NextBalance]_vars

\* init on one connector instance, called again after it has returned or
\* failed.
NextInit ==
    \/ InitStart
    \/ InitModule
    \/ InitAssets
    \/ \E t \in Callers : LoadPoolsPage(t)
    \/ \E t \in Callers, e \in Errors : LoadPoolsFail(t, e)
    \/ InitPoolsDone
    \/ \E e \in Errors : InitFail(e)
    \/ InitReturn

SpecInit == InitPools /\ [][NextInit]_vars

(***************************************************************************)
(* Properties of the box collector (SpecBoxes)                             *)
(***************************************************************************)
RECURSIVE Flatten(_, _)
Flatten(pages, n) == IF n = 0 THEN << >> ELSE Flatten(pages, n - 1) \o pages[n]

\* The index of the first page of `pages` shorter than utxosLimit, or 0.
FirstShortPage(pages) ==
    LET short == {i \in DOMAIN pages : Len(pages[i]) < utxosLimit}
    IN IF short = {} THEN 0 ELSE CHOOSE i \in short : \A j \in short : i <= j

C2_ReturnsWholeList ==
    collect.pc = "done" =>
        /\ collect.utxos = Flatten(collect.pages, Len(collect.pages))
        /\ ~collect.changed =>
              /\ \A i \in DOMAIN collect.pages :
                    collect.pages[i] =
                      getUnspentBoxesByAddress(collect.address,
                                               (i - 1) * utxosLimit, utxosLimit)
              /\ collect.utxos = ledger[collect.address]
              /\ \A i, j \in DOMAIN collect.utxos :
                    i # j => collect.utxos[i].boxId # collect.utxos[j].boxId

\* A completed collection of more than one non-empty page.
C2_Witness ==
    /\ collect.pc = "done"
    /\ ~collect.changed
    /\ Len(collect.pages) >= 3
    /\ Len(collect.utxos) = MaxBoxes

(***************************************************************************)
(* Properties of the pool catalog (SpecPools)                              *)
(***************************************************************************)
IsPrefix(p, q) == Len(p) <= Len(q) /\ SubSeq(q, 1, Len(p)) = p

\* C3: loadPools requests the pages at offsets 0, poolLimit, 2*poolLimit, ...
\* and stops exactly at the first empty one: while it runs every page served
\* was non-empty, and when it completes the page at its last offset is empty.
\* Against a source of exactly poolLimit pools that is two requests, the
\* second at offset poolLimit.
C3_StopsAtEmptyPage ==
    \A t \in Callers :
        tasks[t].op = "loadPools" /\ tasks[t].pc \in {"awaitPage", "done"} =>
            /\ tasks[t].offset = (tasks[t].requests - 1) * poolLimit
            /\ \A k \in 0..(tasks[t].requests - 2) :
                  getPoolData(poolLimit, k * poolLimit) # << >>
            /\ tasks[t].pc = "done" =>
                  /\ getPoolData(poolLimit, tasks[t].offset) = << >>
                  /\ Len(poolSource) = poolLimit =>
                        tasks[t].requests = 2 /\ tasks[t].offset = poolLimit

\* loadPools completed against a source of exactly poolLimit pools.
C3_Witness ==
    /\ tasks["init"].op = "loadPools"
    /\ tasks["init"].pc = "done"
    /\ Len(poolSource) = poolLimit
    /\ tasks["init"].requests = 2

\* C4: a page step of loadPools only appends, and appends only pools whose id
\* is neither in the catalog nor appended twice by the step, so it never
\* introduces a duplicate id; and a loadPools call that starts on the catalog
\* a completed loadPools call left, with no other call appending meanwhile,
\* completes without having appended anything.
C4_LoadAllIdempotent ==
    [][\A t \in Callers :
          LoadPoolsPage(t) =>
            LET added == SubSeq(ammPools', Len(ammPools) + 1, Len(ammPools'))
            IN /\ IsPrefix(ammPools, ammPools')
               /\ NoDupIds(added)
               /\ Ids(added) \cap Ids(ammPools) = {}
               /\ NoDupIds(ammPools) => NoDupIds(ammPools')
               /\ tasks[t].afterLoadAll /\ ~tasks[t].foreign =>
                     ammPools' = ammPools /\ tasks'[t].pushed = << >>]_vars

\* A second loadPools call completed on the catalog of two pools the first
\* one left.
C4_Witness ==
    /\ tasks["init"].op = "loadPools"
    /\ tasks["init"].pc = "done"
    /\ tasks["init"].afterLoadAll
    /\ ~tasks["init"].foreign
    /\ tasks["init"].requests >= 2
    /\ Len(ammPools) >= 2
    /\ NoDupIds(ammPools)

\* C5: a loadPool call whose lookup found the pool completes without asking
\* the source and without appending; one whose lookup missed asks the
\* source and either completes having appended exactly the source's pool of
\* that id, or fails without appending: with PoolNotFound exactly when the
\* source answered and has no such pool.
C5_LoadOne ==
    \A t \in Callers :
        tasks[t].op = "loadPool" /\ tasks[t].pc \in {"awaitSource", "done", "failed"} =>
            LET call == tasks[t]
                inSource == SourceGet(call.poolId)
            IN /\ call.found # Nothing =>
                     /\ call.pc = "done"
                     /\ ~call.queried
                     /\ call.pushed = << >>
                     /\ call.found.id = call.poolId
               /\ call.found = Nothing => call.queried
               /\ call.found = Nothing /\ call.pc = "done" =>
                     /\ inSource # Nothing
                     /\ call.pushed = << inSource >>
                     /\ \E i \in DOMAIN ammPools : ammPools[i] = inSource
               /\ call.pc = "failed" =>
                     /\ call.pushed = << >>
                     /\ call.error = "PoolNotFound" \/ call.error \in Errors
                     /\ call.error = "PoolNotFound" => inSource = Nothing
                     /\ inSource # Nothing => call.error \in Errors

\* One loadPool call failed with PoolNotFound, leaving the catalog alone,
\* while another completed on a pool already in the catalog.
C5_Witness ==
    /\ tasks["init"].op = "loadPool"
    /\ tasks["init"].pc = "failed"
    /\ tasks["init"].error = "PoolNotFound"
    /\ tasks["c2"].op = "loadPool"
    /\ tasks["c2"].pc = "done"
    /\ tasks["c2"].found # Nothing
    /\ Len(ammPools) = 1

\* C6: on every catalog, getPoolByToken(a, b) and getPoolByToken(b, a) are
\* the same catalog entry, or both absent.
C6_PairSymmetry ==
    \A a, b \in Tokens :
        /\ PoolIndexByToken(ammPools, a, b) = PoolIndexByToken(ammPools, b, a)
        /\ getPoolByToken(a, b) = getPoolByToken(b, a)

\* The pair (A, B) resolves to a pool stored as (x = B, y = A).
C6_Witness ==
    /\ PoolIndexByToken(ammPools, "A", "B") = 1
    /\ ammPools[1].x.asset.id = "B"
    /\ ammPools[1].y.asset.id = "A"

\* C7: the catalog only grows at its end, getPoolByToken returns the match
\* of lowest index, which is therefore the one inserted earliest, and once
\* it returns an entry for a pair it returns that entry after every step.
C7_FirstMatchStable ==
    [][/\ IsPrefix(ammPools, ammPools')
       /\ \A a, b \in Tokens :
             LET idx == PoolIndexByToken(ammPools, a, b)
                 idxNext == PoolIndexByToken(ammPools', a, b)
             IN /\ \A i \in DOMAIN ammPools' :
                      PairMatch(ammPools'[i], a, b) => idxNext # 0 /\ idxNext <= i
                /\ idx # 0 => idxNext = idx /\ ammPools'[idx] = ammPools[idx]]_vars

\* Two pools of different id match the pair (A, B); the first one is returned.
C7_Witness ==
    /\ Len(ammPools) >= 2
    /\ PairMatch(ammPools[1], "A", "B")
    /\ PairMatch(ammPools[2], "A", "B")
    /\ ammPools[1].id # ammPools[2].id
    /\ getPoolByToken("B", "A") = ammPools[1]

(***************************************************************************)
(* Properties of the instance registry (SpecInstances)                     *)
(***************************************************************************)
RECURSIVE SumOver(_, _)
SumOver(f, S) ==
    IF S = {} THEN 0
    ELSE LET x == CHOOSE y \in S : TRUE IN f[x] + SumOver(f, S \ {x})

\* C8: two clients whose getInstance calls for one network were not separated
\* by an eviction of that network's entry hold the identical instance; and
\* an instance is constructed only for a network that is not cached: the
\* instances constructed are one per cached entry and one per eviction.
C8_SameInstance ==
    /\ \A u1, u2 \in Clients :
          /\ held[u1] # Nothing /\ held[u2] # Nothing
          /\ held[u1].instance.network = held[u2].instance.network
          /\ held[u1].generation = held[u2].generation
          => held[u1].instance = held[u2].instance
    /\ constructed = SumOver(evictions, Networks) + Cardinality(CachedKeys)
    /\ \A u \in Clients :
          /\ held[u] # Nothing
          /\ held[u].generation = evictions[held[u].instance.network]
          /\ held[u].instance.network \in CachedKeys
          => \E i \in DOMAIN instances.entries :
                 instances.entries[i] = [key |-> held[u].instance.network,
                                         value |-> held[u].instance]

\* Both clients hold the one mainnet instance, after a second network was
\* requested in between.
C8_Witness ==
    /\ held["u1"] # Nothing /\ held["u2"] # Nothing
    /\ held["u1"].instance.network = "mainnet"
    /\ held["u1"] = held["u2"]
    /\ constructed = 2

\* C9: the cache never holds more than maxLRUCacheInstances entries; an
\* entry leaves it only in a getInstance call that constructs the instance
\* of an uncached network while the cache is full, and the entry that leaves
\* is then the least recently used one; the cache, once created, stays.
C9_BoundedLRU ==
    [][/\ instances' # Nothing =>
             /\ instances'.max = maxLRUCacheInstances
             /\ Len(instances'.entries) <= maxLRUCacheInstances
             /\ \A i, j \in DOMAIN instances'.entries :
                   i # j => instances'.entries[i].key # instances'.entries[j].key
       /\ instances # Nothing =>
             /\ instances' # Nothing
             /\ LET gone == Dropped(instances, instances')
                    n == Len(instances.entries)
                IN gone # {} =>
                     /\ n = maxLRUCacheInstances
                     /\ gone = {instances.entries[n].key}
                     /\ lastCall'.op = "getInstance"
                     /\ lastCall'.created
                     /\ lastCall'.network \notin KeysOf(instances)
                     /\ lastCall'.network \in KeysOf(instances')]_vars

\* The mainnet entry has been evicted by a request for testnet.
C9_Witness ==
    /\ instances # Nothing
    /\ evictions["mainnet"] = 1
    /\ CachedKeys = {"testnet"}
    /\ lastCall.op = "getInstance" /\ lastCall.created

(***************************************************************************)
(* Properties of estimate and swap (SpecSwap)                              *)
(***************************************************************************)
\* C10: a swap that has computed its minimum output, and the TradeResponse
\* of a swap that resolved, carry the expectedAmount estimate returns for
\* the same catalog, tokens, amount and slippage; in particular they agree
\* with the outcome of an estimate call made with the same arguments.
C10_SwapAgreesWithEstimate ==
    LET quote == EstimateOutcome(swapCall.catalog, swapCall.base, swapCall.quote,
                                 swapCall.amount, swapCall.slippage)
    IN /\ swapCall.pc \in {"awaitBlock", "awaitTx", "done"} =>
             /\ quote.ok
             /\ swapCall.minOutput.amount = quote.expectedAmount
       /\ swapCall.pc = "done" =>
             /\ swapCall.result.expectedOut = quote.expectedAmount
             /\ /\ lastEstimate # NoEstimate
                /\ lastEstimate.outcome.ok
                /\ lastEstimate.outcome.base = swapCall.base
                /\ lastEstimate.outcome.quote = swapCall.quote
                /\ lastEstimate.outcome.amount = swapCall.amount
                /\ lastEstimate.slippage = swapCall.slippage
                => swapCall.result.expectedOut =
                       lastEstimate.outcome.expectedAmount

\* A swap resolved after an estimate call with the same arguments, the
\* slippage argument omitted in both.
C10_Witness ==
    /\ swapCall.pc = "done"
    /\ swapCall.slippage = 0
    /\ swapCall.result.expectedOut > 0
    /\ lastEstimate # NoEstimate
    /\ lastEstimate.outcome.ok
    /\ lastEstimate.outcome.base = swapCall.base
    /\ lastEstimate.outcome.quote = swapCall.quote
    /\ lastEstimate.outcome.amount = swapCall.amount
    /\ lastEstimate.slippage = swapCall.slippage

\* The pool contains the token as one of its two assets.
Trades(pool, token) == pool.x.asset.id = token \/ pool.y.asset.id = token

\* C11 (as claimed): estimate and swap both refuse a required input of zero:
\* estimate returns no quote computed from a zero `from`, swap goes on to
\* submit only with a non-zero `from`, and fails with InsufficientLiquidity
\* exactly when its `from` is zero.
C11_ZeroInputFails ==
    LET from == SwapFrom(swapCall.pool, swapCall.sell, swapCall.amount,
                         swapCall.slippage)
    IN /\ (lastEstimate # NoEstimate /\ lastEstimate.outcome.ok) =>
              lastEstimate.outcome.from.amount # 0
       /\ swapCall.pc \in {"awaitBlock", "awaitTx", "done"} => from.amount # 0
       /\ (swapCall.pc = "failed" /\ swapCall.error = "InsufficientLiquidity") =>
              from.amount = 0

\* C12: estimate and swap compute only with a pool that trades baseToken,
\* in the direction sell = (pool.x.asset.id # baseToken); a call whose
\* baseToken no catalog pool trades resolves no pool and fails.
C12_DirectionAndPool ==
    /\ swapCall.pool # Nothing =>
          /\ Trades(swapCall.pool, swapCall.base)
          /\ swapCall.sell = (swapCall.pool.x.asset.id # swapCall.base)
          /\ swapCall.sell => swapCall.pool.y.asset.id = swapCall.base
    /\ (/\ swapCall.pc # "idle"
        /\ \A i \in DOMAIN swapCall.catalog :
               ~Trades(swapCall.catalog[i], swapCall.base)) =>
          /\ swapCall.pc = "failed"
          /\ swapCall.pool = Nothing /\ swapCall.minOutput = Nothing
          /\ swapCall.result = Nothing
    /\ (lastEstimate # NoEstimate /\ lastEstimate.outcome.ok) =>
          /\ Trades(lastEstimate.outcome.pool, lastEstimate.outcome.base)
          /\ lastEstimate.outcome.sell =
                 (lastEstimate.outcome.pool.x.asset.id # lastEstimate.outcome.base)
          /\ lastEstimate.outcome.from.asset.id = lastEstimate.outcome.base

\* A swap resolved in the selling direction (baseToken is the pool's y)
\* while the caller holds a quote computed in the other direction.
C12_Witness ==
    /\ swapCall.pc = "done"
    /\ swapCall.sell
    /\ swapCall.pool.y.asset.id = swapCall.base
    /\ lastEstimate # NoEstimate
    /\ lastEstimate.outcome.ok
    /\ ~lastEstimate.outcome.sell

(***************************************************************************)
(* Properties of the vault (SpecVault)                                     *)
(***************************************************************************)
\* C13 (as claimed): decrypting an encrypted secret under a password other
\* than the one it was encrypted under never returns the secret.
C13_WrongPasswordNeverDecrypts ==
    (/\ vault.pc = "decrypted"
     /\ vault.presented = vault.stored
     /\ vault.password2 # vault.password) =>
        ~(vault.outcome.ok /\ vault.outcome.value = vault.secret)

\* C14 (as claimed): decrypting an encrypted secret under the password it
\* was encrypted under returns the secret, for every secret, every password
\* of at most 32 bytes and every IV.
C14_RoundTrip ==
    (/\ vault.pc = "decrypted"
     /\ vault.presented = vault.stored
     /\ vault.password2 = vault.password
     /\ Len(Utf8Bytes(vault.password)) <= KeyLen) =>
        /\ vault.outcome.ok
        /\ vault.outcome.value = vault.secret

\* C14 (amended): the round trip returns the secret for every secret that is
\* a well-formed string (no unpaired surrogate), every password of at most
\* 32 bytes and every IV; a secret with an unpaired surrogate comes back
\* with U+FFFD in its place.
C14_RoundTripWellFormed ==
    (/\ vault.pc = "decrypted"
     /\ vault.presented = vault.stored
     /\ vault.password2 = vault.password
     /\ Len(Utf8Bytes(vault.password)) <= KeyLen) =>
        /\ vault.outcome.ok
        /\ WellFormedString(vault.secret) => vault.outcome.value = vault.secret
        /\ vault.outcome.value =
              [i \in DOMAIN vault.secret |->
                  IF IsSurrogate(vault.secret[i]) THEN ReplacementChar
                  ELSE vault.secret[i]]

\* A secret longer than one block round-tripped under a 32-byte password
\* and a non-zero IV.
C14_Witness ==
    /\ vault.pc = "decrypted"
    /\ vault.presented = vault.stored
    /\ vault.password2 = vault.password
    /\ Len(vault.password) = KeyLen
    /\ Len(vault.secret) > BlockLen
    /\ vault.iv # Rep(0, BlockLen)
    /\ vault.outcome.ok
    /\ vault.outcome.value = vault.secret

\* The string consists of exactly two fields of hex digits around one ':'.
TwoHexFields(str) ==
    LET fields == Split(str)
    IN /\ Len(fields) = 2
       /\ \A f \in 1..2 : \A i \in DOMAIN fields[f] : IsHexDigit(fields[f][i])

\* C15 (as claimed): decrypt fails on every string that does not split into
\* exactly two hex fields.
C15_MalformedFails ==
    (vault.pc = "decrypted" /\ ~TwoHexFields(vault.presented)) =>
        ~vault.outcome.ok

(***************************************************************************)
(* Properties of the balances (SpecBalance)                                *)
(***************************************************************************)
\* The asset name is that of no token the asset catalog was loaded with.
UnknownAsset(assetName) ==
    \A i \in DOMAIN AssetData :
        ToUpperCase(AssetData[i].name) # ToUpperCase(assetName)

Entries(utxos) ==
    UNION {{<< i, j >> : j \in DOMAIN utxos[i].assets} : i \in DOMAIN utxos}

\* The sum of the amounts of the entries of `utxos` that carry tokenId.
TokenTotal(utxos, tokenId) ==
    LET hits == {e \in Entries(utxos) : utxos[e[1]].assets[e[2]].tokenId = tokenId}
    IN SumOver([e \in hits |-> utxos[e[1]].assets[e[2]].amount], hits)

\* The number a string of decimal digits denotes.
RECURSIVE DecimalValue(_)
DecimalValue(str) ==
    IF str = << >> THEN 0
    ELSE 10 * DecimalValue(SubSeq(str, 1, Len(str) - 1))
             + HexVal(str[Len(str)])

\* C17: for a known asset getAssetBalance returns (in decimal) the sum of
\* the amounts of all entries with the asset's tokenId over the boxes it
\* collected for the address; "0" when no entry matches.
C17_AssetBalanceIsSum ==
    assetCall.pc = "done" =>
        LET tokenId == assetCall.ergoAsset.tokenId
            total == TokenTotal(assetCall.utxos, tokenId)
        IN /\ assetCall.result # << >>
           /\ \A i \in DOMAIN assetCall.result : HexVal(assetCall.result[i]) <= 9
           /\ DecimalValue(assetCall.result) = total
           /\ (\A e \in Entries(assetCall.utxos) :
                  assetCall.utxos[e[1]].assets[e[2]].tokenId # tokenId) =>
                 assetCall.result = << "0" >>

\* The balance of a token that some but not all entries of several boxes
\* carry, collected over more than one page.
C17_Witness ==
    /\ assetCall.pc = "done"
    /\ assetCall.ergoAsset.tokenId = "B"
    /\ Len(assetCall.utxos) > utxosLimit
    /\ DecimalValue(assetCall.result) > 10

\* The tokenIds that occur in the boxes.
Observed(utxos) ==
    {utxos[e[1]].assets[e[2]].tokenId : e \in Entries(utxos)}

\* C18: getBalance returns the sum of the boxes' values and a map whose keys
\* are exactly the tokenIds occurring in the boxes, each with the sum of
\* that token's amounts.
C18_BalanceOfBoxes ==
    lastBalance # NoBalance =>
        LET utxos == lastBalance.utxos
            result == lastBalance.result
        IN /\ result.balance =
                 SumOver([i \in DOMAIN utxos |-> utxos[i].value], DOMAIN utxos)
           /\ DOMAIN result.assets = Observed(utxos)
           /\ \A t \in Observed(utxos) : result.assets[t] = TokenTotal(utxos, t)

\* Boxes in which one token occurs several times and another only once.
C18_Witness ==
    /\ lastBalance # NoBalance
    /\ Len(lastBalance.utxos) >= 3
    /\ DOMAIN lastBalance.result.assets = {"A", "B"}
    /\ lastBalance.result.assets["A"] > lastBalance.result.assets["B"]

\* C20: when the collection of unspent boxes fails during getAssetBalance,
\* at whatever page and with whatever transport error, getAssetBalance
\* rejects with one fixed error and returns no balance.
C20_CollectionFailureWrapped ==
    (assetCall.pc = "failed" /\ assetCall.cause # None) =>
        /\ assetCall.error = "problem during finding account assets ergo Node!"
        /\ assetCall.error \notin Errors
        /\ assetCall.result = << >>

\* The collection failed with a timeout at its second page.
C20_Witness ==
    /\ assetCall.pc = "failed"
    /\ assetCall.cause = "Timeout"
    /\ assetCall.failedAt = 2

(***************************************************************************)
(* Failure of the box collector (SpecBoxes)                                *)
(***************************************************************************)
\* C19: when a page request of getAddressUnspentBoxes fails, the call
\* rejects with the very error the request raised and hands out none of the
\* boxes of the pages fetched before; a failed call issues no further
\* request: it stays as it is until its caller has taken the error.
C19_FailureAbortsCollection ==
    [][/\ collect'.pc = "failed" =>
             /\ collect'.error = collect'.raised
             /\ collect'.error \in Errors
             /\ collect'.utxos = << >>
             /\ collect.pc \in {"await", "failed"}
       /\ collect.pc = "failed" =>
             \/ collect' = IdleCollect
             \/ /\ collect'.pc = "failed"
                /\ collect'.requests = collect.requests
                /\ collect'.error = collect.error
                /\ collect'.utxos = << >>]_vars

\* A call failed with a timeout at its second request, after a full page of
\* boxes had been fetched.
C19_Witness ==
    /\ collect.pc = "failed"
    /\ collect.error = "Timeout"
    /\ collect.requests = 2
    /\ Len(collect.pages) = 1
    /\ Len(collect.pages[1]) = utxosLimit

(***************************************************************************)
(* Effects of estimate and swap (SpecSwap)                                 *)
(***************************************************************************)
\* C21: a call of estimate, whether it returns a quote or rejects, requests
\* no unspent boxes, submits no transaction and leaves the pool catalog, the
\* asset catalog and the instance registry as they are.
C21_EstimateIsDryRun ==
    [][(lastEstimate = NoEstimate /\ lastEstimate' # NoEstimate) =>
          /\ collect' = collect
          /\ txSubmitted' = txSubmitted
          /\ swapCall' = swapCall
          /\ ammPools' = ammPools
          /\ assetMap' = assetMap
          /\ instances' = instances]_vars

\* estimate has rejected (no pool for the pair) after a transaction of an
\* earlier swap was submitted.
C21_Witness ==
    /\ lastEstimate # NoEstimate
    /\ ~lastEstimate.outcome.ok
    /\ txSubmitted = 1
    /\ ammPools # << >>

\* C22: a swap has handed a transaction to actions.swap only if the pair
\* resolved a pool, the required input was not zero, swapVars gave a
\* result, the boxes covered the input and the fees, and the output address
\* has a public key; a swap that failed at one of these steps has submitted
\* nothing; a swap that resolved carries the id of the transaction it
\* submitted.
C22_SubmitsLast ==
    LET from == SwapFrom(swapCall.pool, swapCall.sell, swapCall.amount,
                         swapCall.slippage)
        params == getBaseInputParameters(swapCall.pool, from,
                                         SwapSlippage(swapCall.slippage))
        submitted == txSubmitted - swapCall.txBefore
    IN swapCall.pc # "idle" =>
          /\ submitted \in {0, 1}
          /\ submitted = 1 =>
                /\ swapCall.pool # Nothing
                /\ from.amount # 0
                /\ swapVars(params.minOutput) # Nothing
                /\ InputsCover(swapCall.utxos, from.asset.id,
                               params.baseInputAmount)
                /\ publicKeyFromAddress(swapCall.output_address) # Nothing
          /\ (/\ swapCall.pc = "failed"
              /\ swapCall.error \in {"PoolNotFound", "InsufficientLiquidity",
                                     "SwapVarsUnsatisfiable",
                                     "InsufficientFunds", "NoPublicKey"}) =>
                submitted = 0
          /\ swapCall.pc \in {"awaitContext", "awaitUtxos", "awaitBlock"} =>
                submitted = 0
          /\ swapCall.pc = "done" =>
                /\ submitted = 1
                /\ swapCall.result.txHash = txSubmitted

\* A swap was rejected because swapVars gave no result for a non-zero input.
C22_Witness ==
    /\ swapCall.pc = "failed"
    /\ swapCall.error = "SwapVarsUnsatisfiable"
    /\ swapCall.utxos # << >>
    /\ txSubmitted = swapCall.txBefore

(***************************************************************************)
(* The catalog under concurrent loads (SpecPools)                          *)
(***************************************************************************)
\* C23: an entry of the pool catalog stays: no step of loadPools or loadPool
\* (with the getPool lookup it makes) removes an entry or changes one of its
\* fields; the catalog only grows at its end.
C23_EntriesStay ==
    [][/\ Len(ammPools') >= Len(ammPools)
       /\ \A i \in DOMAIN ammPools : ammPools'[i] = ammPools[i]
       /\ Ids(ammPools) \subseteq Ids(ammPools')]_vars

\* The catalog holds a pool that loadPools entered and, behind it, a pool
\* that a loadPool call of the other caller entered.
C23_Witness ==
    /\ Len(ammPools) >= 2
    /\ tasks["init"].op = "loadPools" /\ tasks["init"].pushed # << >>
    /\ tasks["c2"].op = "loadPool" /\ tasks["c2"].pushed # << >>
    /\ ammPools[1] = tasks["init"].pushed[1]

\* C24 (as claimed): no two entries of the pool catalog have the same id,
\* however loadPool calls interleave with each other and with loadPools.
C24_NoDuplicateIds == NoDupIds(ammPools)

(***************************************************************************)
(* Properties of init and ready (SpecInit)                                 *)
(***************************************************************************)
\* Every token the DEX service lists is in the asset catalog.
AssetsLoaded ==
    \A i \in DOMAIN AssetData :
        /\ ToUpperCase(AssetData[i].name) \in DOMAIN assetMap
        /\ assetMap[ToUpperCase(AssetData[i].name)].tokenId = AssetData[i].address

\* The loadPools call of init has received its final, empty page, and every
\* pool the source serves is in the pool catalog.
PoolsLoaded ==
    /\ tasks["init"].op = "loadPools" /\ tasks["init"].pc = "done"
    /\ getPoolData(poolLimit, tasks["init"].offset) = << >>
    /\ tasks["init"].requests * poolLimit = tasks["init"].offset + poolLimit
    /\ Ids(poolSource) \subseteq Ids(ammPools)

====
